---- MODULE Spec2Model ----
(***************************************************************************)
(* A model of dagology's metric layer (algorithms/metrics.py) and of its   *)
(* causal set generators (dagology/generators/causal_set.py).              *)
(*                                                                         *)
(* One Python process makes API calls one after the other.  A call is      *)
(* either evaluated in one step (the metrics) or stepped through its loop  *)
(* (causal_set_graph, minkowski_interval_scatter,                          *)
(* de_sitter_interval_scatter).  The outcome of the last call is kept in   *)
(* `result` until the caller drops it (Return).                            *)
(*                                                                         *)
(* Numbers.  Coordinates are integers, so products and sums are exact.     *)
(* Python sequences are 0-based, TLA+ sequences are 1-based: x[0] of the   *)
(* source is x[1] here, and R[i, 0] is R[i+1][1].  Loop counters i, j keep *)
(* the source's 0-based values.                                            *)
(* In the samplers the unit interval [0, 1) is the grid 0..Unit-1 in steps *)
(* of 1/Unit, so that 0.5 is Half and 1. is Unit.                          *)
(***************************************************************************)
EXTENDS Integers, Sequences, FiniteSets, TLC

VARIABLES
    pc,         \* where the process is: "idle", "done", or inside a loop
    call,       \* the call being made or last made, with its arguments
    result,     \* the outcome of the call: a value or the exception raised
    Ldefault,   \* the list object bound to minkowski_periodic's default L=[]
    Lcaller,    \* the list object the caller passed as L / periodic
    R,          \* the coordinate matrix of the running call
    i,          \* outer loop counter of the running call
    j,          \* inner loop counter of causal_set_graph
    edgelist,   \* causal_set_graph's edgelist
    G,          \* causal_set_graph's graph
    Z,          \* de_sitter_interval_scatter's accumulated points
    accepted    \* history: every row some batch of the running call accepted

vars == <<pc, call, result, Ldefault, Lcaller, R, i, j, edgelist, G, Z, accepted>>

----------------------------------------------------------------------------
(* Bounds of the model *)

\* most rows of a coordinate matrix
MaxN == 3
\* most coordinates of a point (time first)
MaxD == 3
\* time coordinates of the metric and graph inputs are 0..MaxT
MaxT == 2
\* space coordinates of the metric and graph inputs are 0..MaxX
MaxX == 1
\* finite periods are 1..MaxPeriod
MaxPeriod == 1
\* 0.5 on the samplers' grid
Half == 1
\* probabilities and uniform draws of causal_set_graph are multiples of 1/PDenom
PDenom == 2
\* KT2 ranges over -KT2Margin .. KT2Max + KT2Margin
KT2Margin == 1

----------------------------------------------------------------------------
(* Python values *)

\* Python's None, as an entry of a periodic spec (periods are positive)
None == -1

\* the caller's list object: absent when L is omitted / periodic=None
NoList == [passed |-> FALSE, list |-> <<>>]

ListObj(L) == [passed |-> TRUE, list |-> L]

Value(v) == [kind |-> "value", val |-> v]

\* a float this model does not compute (an arccos)
Real == [kind |-> "real"]

Raise(exc, msg) == [kind |-> exc, msg |-> msg]

NoResult == [kind |-> "none"]

Raised(r) == r.kind \in {"AssertionError", "IndexError", "UnboundLocalError"}

Sq(v) == v * v

Min2(u, v) == IF u <= v THEN u ELSE v

Min3(u, v, w) == Min2(u, Min2(v, w))

RECURSIVE SumSeq(_)
SumSeq(s) == IF s = <<>> THEN 0 ELSE Head(s) + SumSeq(Tail(s))

\* x[1:]
Rest(x) == IF x = <<>> THEN <<>> ELSE Tail(x)

\* the points of D coordinates the metric and graph inputs are drawn from
Points(D) == { x \in [1..D -> 0..(IF MaxT >= MaxX THEN MaxT ELSE MaxX)] :
                 /\ x[1] <= MaxT
                 /\ \A d \in 2..D : x[d] <= MaxX }

Periods == {None} \cup (1..MaxPeriod)

\* the lists of at most n entries over S
SeqsUpTo(S, n) == UNION { [1..k -> S] : k \in 0..n }

----------------------------------------------------------------------------
(* metrics.py: Riemannian *)

euclidean(x, y) ==
    IF Len(x) # Len(y)
    THEN Raise("AssertionError", "ERROR - vectors in Euclidean metric have different lengths")
    ELSE Value(SumSeq([d \in 1..Len(x) |-> (x[d] - y[d]) * (x[d] - y[d])]))

\* spherical without its length assertion
spherical_unchecked(x_, y_) == Real

spherical(x_, y_) ==
    IF Len(x_) # Len(y_)
    THEN Raise("AssertionError", "ERROR - vectors in spherical metric have different lengths")
    ELSE Real

----------------------------------------------------------------------------
(* metrics.py: Lorentzian *)

minkowski(x, y) ==
    IF Len(x) # Len(y)
    THEN Raise("AssertionError", "ERROR - vectors in Minkowski metric have different lengths")
    ELSE IF Len(x) = 0
    THEN Raise("IndexError", "index out of range")
    ELSE LET dt     == x[1] - y[1]
             dt2    == dt * dt
             dx     == [d \in 1..(Len(x) - 1) |-> x[d + 1] - y[d + 1]]
             dx2    == [d \in 1..Len(dx) |-> dx[d] * dx[d]]
             dx2sum == SumSeq(dx2)
         IN  Value(dx2sum - dt2)

\* while len(L) < (D-1): L.append(None)
RECURSIVE PadNone(_, _)
PadNone(L, n) == IF Len(L) < n THEN PadNone(Append(L, None), n) ELSE L

\* a local name that was never assigned
Unbound == "unbound"

\* `if L_d:` -- None and 0 are both false
Truthy(L_d) == L_d # None /\ L_d # 0

\* for d in range(1, D): ...   (d is the source's 0-based index)
RECURSIVE PeriodicLoop(_, _, _, _, _, _)
PeriodicLoop(x, y, L, d, ds2, dz2) ==
    IF d >= Len(x)
    THEN Value(ds2)
    ELSE LET L_d == L[d]
             dx2 == IF Truthy(L_d)
                    THEN Min3(Sq(x[d + 1] - y[d + 1]),
                              Sq(x[d + 1] - y[d + 1] + L_d),
                              Sq(x[d + 1] - y[d + 1] - L_d))
                    ELSE Sq(x[d + 1] - y[d + 1])
         IN  IF dz2 = Unbound
             THEN Raise("UnboundLocalError", "dz2 referenced before assignment")
             ELSE PeriodicLoop(x, y, L, d + 1, ds2, dz2 + dx2)

\* The outcome of minkowski_periodic(x, y, L) and the list object L after it.
minkowski_periodic(x, y, L) ==
    LET D == Len(x)
    IN  IF Len(y) # D
        THEN [res |-> Raise("AssertionError",
                            "ERROR - vectors in Minkowski metric have different lengths"),
              L   |-> L]
        ELSE LET L1 == PadNone(L, D - 1)
             IN  IF D = 0
                 THEN [res |-> Raise("IndexError", "index out of range"), L |-> L1]
                 ELSE LET dt  == x[1] - y[1]
                          dt2 == dt * dt
                          ds2 == (-1) * dt2
                      IN  [res |-> PeriodicLoop(x, y, L1, 1, ds2, Unbound),
                           L   |-> L1]

de_sitter(x, y) ==
    IF Len(x) = 0 \/ Len(y) = 0
    THEN Raise("IndexError", "index out of range")
    ELSE LET dx == spherical(Rest(x), Rest(y))
         IN  IF Raised(dx) THEN dx ELSE Real

----------------------------------------------------------------------------
(* The calling process *)

AllPoints == UNION { Points(D) : D \in 1..MaxD }

NoCall == [fn |-> "none"]

EmptyGraph == [nodes |-> {}, position |-> <<>>, edges |-> {}]

\* the locals of the stepped functions, when none of them runs
NoFrame ==
    /\ R' = <<>>
    /\ i' = 0
    /\ j' = 0
    /\ edgelist' = <<>>
    /\ G' = EmptyGraph
    /\ Z' = <<>>
    /\ accepted' = {}

Init ==
    /\ pc = "idle"
    /\ call = NoCall
    /\ result = NoResult
    /\ Ldefault = <<>>
    /\ Lcaller = NoList
    /\ R = <<>>
    /\ i = 0
    /\ j = 0
    /\ edgelist = <<>>
    /\ G = EmptyGraph
    /\ Z = <<>>
    /\ accepted = {}

\* the caller drops the result and its list; the module's objects stay
Return ==
    /\ pc = "done"
    /\ pc' = "idle"
    /\ call' = NoCall
    /\ result' = NoResult
    /\ Lcaller' = NoList
    /\ NoFrame
    /\ UNCHANGED Ldefault

CallEuclidean ==
    /\ pc = "idle"
    /\ \E x \in AllPoints, y \in AllPoints :
          /\ call' = [fn |-> "euclidean", x |-> x, y |-> y]
          /\ result' = euclidean(x, y)
    /\ pc' = "done"
    /\ UNCHANGED <<Ldefault, Lcaller, R, i, j, edgelist, G, Z, accepted>>

CallSpherical ==
    /\ pc = "idle"
    /\ \E x \in AllPoints, y \in AllPoints :
          /\ call' = [fn |-> "spherical", x |-> x, y |-> y]
          /\ result' = spherical(x, y)
    /\ pc' = "done"
    /\ UNCHANGED <<Ldefault, Lcaller, R, i, j, edgelist, G, Z, accepted>>

CallMinkowski ==
    /\ pc = "idle"
    /\ \E x \in AllPoints, y \in AllPoints :
          /\ call' = [fn |-> "minkowski", x |-> x, y |-> y]
          /\ result' = minkowski(x, y)
    /\ pc' = "done"
    /\ UNCHANGED <<Ldefault, Lcaller, R, i, j, edgelist, G, Z, accepted>>

\* minkowski_periodic(x, y, L) on a list object of the caller
CallMinkowskiPeriodic ==
    /\ pc = "idle"
    /\ \E x \in AllPoints, y \in AllPoints, L \in SeqsUpTo(Periods, MaxD - 1) :
          LET out == minkowski_periodic(x, y, L)
          IN  /\ call' = [fn |-> "minkowski_periodic", x |-> x, y |-> y,
                          hasL |-> TRUE, L |-> L]
              /\ result' = out.res
              /\ Lcaller' = ListObj(out.L)
    /\ pc' = "done"
    /\ UNCHANGED <<Ldefault, R, i, j, edgelist, G, Z, accepted>>

\* minkowski_periodic(x, y): L is the function's default object
CallMinkowskiPeriodicDefault ==
    /\ pc = "idle"
    /\ \E x \in AllPoints, y \in AllPoints :
          LET out == minkowski_periodic(x, y, Ldefault)
          IN  /\ call' = [fn |-> "minkowski_periodic", x |-> x, y |-> y,
                          hasL |-> FALSE, L |-> Ldefault]
              /\ result' = out.res
              /\ Ldefault' = out.L
    /\ pc' = "done"
    /\ UNCHANGED <<Lcaller, R, i, j, edgelist, G, Z, accepted>>

CallDeSitter ==
    /\ pc = "idle"
    /\ \E x \in AllPoints, y \in AllPoints :
          /\ call' = [fn |-> "de_sitter", x |-> x, y |-> y]
          /\ result' = de_sitter(x, y)
    /\ pc' = "done"
    /\ UNCHANGED <<Ldefault, Lcaller, R, i, j, edgelist, G, Z, accepted>>

----------------------------------------------------------------------------
(* causal_set.py: causal_set_graph, one loop iteration per step *)

\* `if R[i, 0] < R[j, 0]` with the comparison turned round
EarlierReversed(M, a, b) == M[a + 1][1] > M[b + 1][1]

\* `if R[i, 0] < R[j, 0]`  (a, b are the source's 0-based row indices)
Earlier(M, a, b) == M[a + 1][1] < M[b + 1][1]

\* `p > np.random.random()` weakened to p >= u
ProceedsWeak(p, u) == p = PDenom \/ p >= u

\* `if p == 1. or p > np.random.random()`; u is the draw, in [0, 1)
Proceeds(p, u) == p = PDenom \/ p > u

\* `< 0` weakened to `<= 0`
NegativeOrNull(sep) == sep <= 0

\* `if dag.minkowski(R[i], R[j]) < 0`
Negative(sep) == sep < 0

\* `if periodic:` -- None and the empty list are both false
PeriodicGiven(obj) == obj.passed /\ obj.list # <<>>

\* G.add_node(n, position=tuple(row))
AddNode(g, n, row) ==
    [nodes    |-> g.nodes \cup {n},
     position |-> [m \in g.nodes \cup {n} |-> IF m = n THEN row ELSE g.position[m]],
     edges    |-> g.edges]

\* G.add_edges_from(edgelist): a DiGraph keeps one edge per ordered pair
AddEdgesFrom(g, el) ==
    [nodes    |-> g.nodes \cup UNION { {el[k][1], el[k][2]} : k \in 1..Len(el) },
     position |-> g.position,
     edges    |-> g.edges \cup { <<el[k][1], el[k][2]>> : k \in 1..Len(el) }]

\* the periodic specs a caller of causal_set_graph passes
PeriodicArgs == {NoList} \cup { ListObj(L) : L \in SeqsUpTo(Periods, 1) }

CallCausalSetGraph ==
    /\ pc = "idle"
    /\ \E N \in 0..MaxN, D \in 1..MaxD, p \in 0..PDenom, periodic \in PeriodicArgs :
          \E M \in [1..N -> Points(D)] :
             /\ call' = [fn |-> "causal_set_graph", N |-> N, D |-> D, p |-> p,
                         periodic |-> periodic]
             /\ R' = M
             /\ Lcaller' = periodic
    /\ G' = EmptyGraph
    /\ edgelist' = <<>>
    /\ i' = 0
    /\ j' = 0
    /\ pc' = "csg_outer"
    /\ UNCHANGED <<result, Ldefault, Z, accepted>>

\* for i in range(N): G.add_node(i, position=tuple(R[i]))
CsgAddNode ==
    /\ pc = "csg_outer"
    /\ i < call.N
    /\ G' = AddNode(G, i, R[i + 1])
    /\ j' = 0
    /\ pc' = "csg_inner"
    /\ UNCHANGED <<call, result, Ldefault, Lcaller, R, i, edgelist, Z, accepted>>

\* the body of `for j in range(N)` for one j
CsgPair ==
    /\ pc = "csg_inner"
    /\ j < call.N
    /\ \E u \in 0..(PDenom - 1) :
          IF ~(Earlier(R, i, j) /\ Proceeds(call.p, u))
          THEN /\ j' = j + 1
               /\ UNCHANGED <<pc, result, Lcaller, edgelist>>
          ELSE IF PeriodicGiven(Lcaller)
          THEN LET out == minkowski_periodic(R[i + 1], R[j + 1], Lcaller.list)
               IN  /\ Lcaller' = ListObj(out.L)
                   /\ IF Raised(out.res)
                      THEN /\ result' = out.res
                           /\ pc' = "done"
                           /\ UNCHANGED <<j, edgelist>>
                      ELSE /\ edgelist' = IF Negative(out.res.val)
                                          THEN Append(edgelist, <<i, j>>)
                                          ELSE edgelist
                           /\ j' = j + 1
                           /\ UNCHANGED <<pc, result>>
          ELSE LET sep == minkowski(R[i + 1], R[j + 1])
               IN  IF Raised(sep)
                   THEN /\ result' = sep
                        /\ pc' = "done"
                        /\ UNCHANGED <<j, edgelist, Lcaller>>
                   ELSE /\ edgelist' = IF Negative(sep.val)
                                       THEN Append(edgelist, <<i, j>>)
                                       ELSE edgelist
                        /\ j' = j + 1
                        /\ UNCHANGED <<pc, result, Lcaller>>
    /\ UNCHANGED <<call, Ldefault, R, i, G, Z, accepted>>

\* the inner loop is exhausted: next i
CsgNextRow ==
    /\ pc = "csg_inner"
    /\ j >= call.N
    /\ i' = i + 1
    /\ pc' = "csg_outer"
    /\ UNCHANGED <<call, result, Ldefault, Lcaller, R, j, edgelist, G, Z, accepted>>

\* G.add_edges_from(edgelist); return G
CsgReturn ==
    /\ pc = "csg_outer"
    /\ i >= call.N
    /\ G' = AddEdgesFrom(G, edgelist)
    /\ result' = [kind |-> "graph", graph |-> AddEdgesFrom(G, edgelist)]
    /\ pc' = "done"
    /\ UNCHANGED <<call, Ldefault, Lcaller, R, i, j, edgelist, Z, accepted>>

NextGraph ==
    \/ CallCausalSetGraph
    \/ CsgAddNode
    \/ CsgPair
    \/ CsgNextRow
    \/ CsgReturn
    \/ Return

\* the process builds causal set graphs only
SpecGraph == Init /\ [][NextGraph]_vars

----------------------------------------------------------------------------
(* causal_set.py: the interval samplers *)

\* 1. on the samplers' grid
Unit == 2 * Half

\* np.random.random(D): D uniform draws from [0, 1)
Cube(D) == [1..D -> 0..(Unit - 1)]

\* a = np.zeros(D); a[1:] = 0.5
IntervalStart(D) == [d \in 1..D |-> IF d = 1 THEN 0 ELSE Half]

\* b = np.zeros(D); b[0] = 1.; b[1:] = 0.5
IntervalEnd(D) == [d \in 1..D |-> IF d = 1 THEN Unit ELSE Half]

\* the `while` condition of minkowski_interval_scatter
Rejected(row) ==
    \/ minkowski(IntervalStart(Len(row)), row).val > 0
    \/ minkowski(row, IntervalEnd(Len(row))).val > 0

minkowski_interval_map(N, D, fix_ends) ==
    Raise("AssertionError", "ERROR - minkowski_interval_map not implemented yet")

\* de_sitter_interval_map with the KT2 assertion of the scatter method in front
de_sitter_interval_map_checked(N, D, KT2, fix_ends) ==
    IF 0 < KT2 /\ KT2 < 4
    THEN Raise("AssertionError", "Not implemented yet")
    ELSE Raise("AssertionError", "KT^2 must be between 0 and 4 for this method")

de_sitter_interval_map(N, D, KT2, fix_ends) ==
    Raise("AssertionError", "Not implemented yet")

\* upper end of the KT2 assertion
KT2Max == 4

\* the assertion with its upper end included
KT2InRangeClosed(KT2) == 0 < KT2 /\ KT2 <= KT2Max

\* assert 0. < (KT2) < 4.
KT2InRange(KT2) == 0 < KT2 /\ KT2 < KT2Max

Methods == {"scatter", "map", "other"}

\* minkowski_interval(N, D, fix_ends, method); with 'scatter' it runs the start
\* of minkowski_interval_scatter, down to the `for`
CallMinkowskiInterval ==
    /\ pc = "idle"
    /\ \E N \in 1..MaxN, D \in 1..MaxD, fix_ends \in BOOLEAN, method \in Methods :
          /\ call' = [fn |-> "minkowski_interval", N |-> N, D |-> D,
                      fix_ends |-> fix_ends, method |-> method]
          /\ IF method = "scatter"
             THEN \E M \in [1..N -> Cube(D)] :
                     IF ~fix_ends
                     THEN /\ R' = M
                          /\ i' = 0
                          /\ pc' = "mis"
                          /\ UNCHANGED result
                     ELSE IF N < 2
                     THEN \* R[0] = a, then R[1] = b is out of bounds
                          /\ R' = [M EXCEPT ![1] = IntervalStart(D)]
                          /\ result' = Raise("IndexError",
                                             "index 1 is out of bounds for axis 0 with size 1")
                          /\ pc' = "done"
                          /\ UNCHANGED i
                     ELSE /\ R' = [M EXCEPT ![1] = IntervalStart(D),
                                            ![2] = IntervalEnd(D)]
                          /\ i' = 2
                          /\ pc' = "mis"
                          /\ UNCHANGED result
             ELSE /\ result' = IF method = "map"
                               THEN minkowski_interval_map(N, D, fix_ends)
                               ELSE Raise("AssertionError",
                                          "Invalid method given to minkowski_interval")
                  /\ pc' = "done"
                  /\ UNCHANGED <<R, i>>
    /\ UNCHANGED <<Ldefault, Lcaller, j, edgelist, G, Z, accepted>>

\* one test of the `while` of row i: redraw the row, or go on to the next i
MisTest ==
    /\ pc = "mis"
    /\ i < call.N
    /\ IF Rejected(R[i + 1])
       THEN /\ \E row \in Cube(call.D) : R' = [R EXCEPT ![i + 1] = row]
            /\ UNCHANGED i
       ELSE /\ i' = i + 1
            /\ UNCHANGED R
    /\ UNCHANGED <<pc, call, result, Ldefault, Lcaller, j, edgelist, G, Z, accepted>>

\* return R
MisReturn ==
    /\ pc = "mis"
    /\ i >= call.N
    /\ result' = [kind |-> "matrix", rows |-> R]
    /\ pc' = "done"
    /\ UNCHANGED <<call, Ldefault, Lcaller, R, i, j, edgelist, G, Z, accepted>>

\* What minkowski_interval(N, D, fix_ends=fix_ends) hands back to
\* de_sitter_interval_scatter: every matrix the scatter loop can end with
\* (the steps above, run to their end).
ScatterResults(N, D, fix_ends) ==
    { M \in [1..N -> Cube(D) \cup {IntervalStart(D), IntervalEnd(D)}] :
        \A k \in 1..N :
           IF fix_ends /\ k = 1 THEN M[k] = IntervalStart(D)
           ELSE IF fix_ends /\ k = 2 THEN M[k] = IntervalEnd(D)
           ELSE M[k] \in Cube(D) /\ ~Rejected(M[k]) }

\* R[:, 1:] -= 0.5
Recentre(M) == [k \in 1..Len(M) |->
                  [d \in 1..Len(M[k]) |-> IF d = 1 THEN M[k][d] ELSE M[k][d] - Half]]

\* R[m < sigma]: the rows whose draw fell under sigma, in order
RECURSIVE Select(_, _)
Select(M, mask) ==
    IF M = <<>> THEN <<>>
    ELSE IF Head(mask) THEN <<Head(M)>> \o Select(Tail(M), Tail(mask))
    ELSE Select(Tail(M), Tail(mask))

\* `return Z[:N]` without the slice
Untruncated(M, N) == M

\* Z[:N]
FirstRows(M, N) == IF Len(M) <= N THEN M ELSE SubSeq(M, 1, N)

\* Z[0,:] = 0.; Z[1,:] = 0.; Z[1,0] = 1.
FixEnds(M, D) ==
    [M EXCEPT ![1] = [d \in 1..D |-> 0],
              ![2] = [d \in 1..D |-> IF d = 1 THEN Unit ELSE 0]]

\* de_sitter_interval(N, D, KT2, fix_ends, method); with 'scatter' it runs the
\* start of de_sitter_interval_scatter, down to the `while`
CallDeSitterInterval ==
    /\ pc = "idle"
    /\ \E N \in 1..MaxN, D \in 1..MaxD, fix_ends \in BOOLEAN, method \in Methods,
          KT2 \in (0 - KT2Margin)..(KT2Max + KT2Margin) :
          /\ call' = [fn |-> "de_sitter_interval", N |-> N, D |-> D, KT2 |-> KT2,
                      fix_ends |-> fix_ends, method |-> method]
          /\ IF method = "scatter" /\ KT2InRange(KT2)
             THEN /\ pc' = "dss"
                  /\ UNCHANGED result
             ELSE /\ result' =
                       IF method = "scatter"
                       THEN Raise("AssertionError",
                                  "KT^2 must be between 0 and 4 for this method")
                       ELSE IF method = "map"
                       THEN de_sitter_interval_map(N, D, KT2, fix_ends)
                       ELSE Raise("AssertionError",
                                  "Invalid method given to de_sitter_interval")
                  /\ pc' = "done"
    /\ Z' = <<>>
    /\ UNCHANGED <<Ldefault, Lcaller, R, i, j, edgelist, G, accepted>>

\* one pass of `while Z.shape[0] < N`: a batch of N candidates, some accepted.
\* The batch R, M, m, S and sigma live within the pass and are not kept.
DssBatch ==
    /\ pc = "dss"
    /\ Len(Z) < call.N
    /\ IF call.fix_ends /\ call.N < 2
       THEN \* minkowski_interval raises, and so does this call
            /\ result' = Raise("IndexError",
                               "index 1 is out of bounds for axis 0 with size 1")
            /\ pc' = "done"
            /\ UNCHANGED <<Z, accepted>>
       ELSE /\ \E M \in ScatterResults(call.N, call.D, call.fix_ends),
                  mask \in [1..call.N -> BOOLEAN] :
                  LET batch == Recentre(M)
                      kept  == Select(batch, mask)
                  IN  /\ Z' = Z \o kept
                      /\ accepted' = accepted \cup { kept[k] : k \in 1..Len(kept) }
            /\ UNCHANGED <<pc, result>>
    /\ UNCHANGED <<call, Ldefault, Lcaller, R, i, j, edgelist, G>>

\* the code after the `while`
DssReturn ==
    /\ pc = "dss"
    /\ Len(Z) >= call.N
    /\ IF call.fix_ends /\ Len(Z) < 2
       THEN /\ result' = Raise("IndexError",
                               "index 1 is out of bounds for axis 0 with size 1")
            /\ UNCHANGED Z
       ELSE LET Zf == IF call.fix_ends THEN FixEnds(Z, call.D) ELSE Z
            IN  /\ Z' = Zf
                /\ result' = [kind |-> "matrix", rows |-> FirstRows(Zf, call.N)]
    /\ pc' = "done"
    /\ UNCHANGED <<call, Ldefault, Lcaller, R, i, j, edgelist, G, accepted>>

NextSampler ==
    \/ CallMinkowskiInterval
    \/ MisTest
    \/ MisReturn
    \/ CallDeSitterInterval
    \/ DssBatch
    \/ DssReturn
    \/ Return

\* the process samples intervals only
SpecSampler == Init /\ [][NextSampler]_vars

NextMetric ==
    \/ CallEuclidean
    \/ CallSpherical
    \/ CallMinkowski
    \/ CallMinkowskiPeriodic
    \/ CallMinkowskiPeriodicDefault
    \/ CallDeSitter
    \/ Return

\* the process calls the metrics only
SpecMetric == Init /\ [][NextMetric]_vars

----------------------------------------------------------------------------
(* Properties *)

Metrics == {"euclidean", "spherical", "minkowski", "minkowski_periodic", "de_sitter"}

\* the messages of the length assertions of metrics.py
LengthMessages ==
    {"ERROR - vectors in Euclidean metric have different lengths",
     "ERROR - vectors in spherical metric have different lengths",
     "ERROR - vectors in Minkowski metric have different lengths"}

\* the separation of two rows: squared space differences less the squared
\* time difference
Separation(x, y) ==
    SumSeq([d \in 1..(Len(x) - 1) |-> (x[d + 1] - y[d + 1]) * (x[d + 1] - y[d + 1])])
      - (x[1] - y[1]) * (x[1] - y[1])

\* the ordered pairs of rows of M, earlier first, with a negative separation
TimelikePairs(M) ==
    { e \in (0..(Len(M) - 1)) \X (0..(Len(M) - 1)) :
        /\ M[e[1] + 1][1] < M[e[2] + 1][1]
        /\ Separation(M[e[1] + 1], M[e[2] + 1]) < 0 }

\* the pairs <<a, c>> with a P-pair <<a, b>> and an edge <<b, c>>
Compose(P, E) ==
    { <<q[1][1], q[2][2]>> : q \in { pr \in P \X E : pr[1][2] = pr[2][1] } }

\* the pairs joined by a path of at most k + 1 edges of E
RECURSIVE Paths(_, _)
Paths(E, k) ==
    IF k = 0 THEN E
    ELSE LET P == Paths(E, k - 1) IN P \cup Compose(P, E)

\* no path of E leads from a node back to it
Acyclic(E, N) == \A n \in 0..(N - 1) : <<n, n>> \notin Paths(E, N)

\* a graph was returned by causal_set_graph(R, p, periodic=None)
GraphReturned ==
    /\ pc = "done"
    /\ call.fn = "causal_set_graph"
    /\ ~call.periodic.passed
    /\ result.kind = "graph"

\* C1: the graph causal_set_graph(R, p=1.0) returns, with periodic=None, has no
\* self-loop and no directed cycle, and each of its edges (i, j) has
\* R[i,0] < R[j,0].
C1_EdgesForwardInTime ==
    (GraphReturned /\ call.p = PDenom) =>
        /\ \A e \in result.graph.edges :
              /\ e[1] # e[2]
              /\ R[e[1] + 1][1] < R[e[2] + 1][1]
        /\ Acyclic(result.graph.edges, call.N)

\* a three-node graph with p = 1 that has edges and lacks one of the
\* time-ordered pairs
C1_Witness ==
    /\ GraphReturned
    /\ call.p = PDenom
    /\ call.N = 3
    /\ Cardinality(result.graph.edges) >= 2
    /\ \E a \in 0..2, b \in 0..2 :
          R[a + 1][1] < R[b + 1][1] /\ <<a, b>> \notin result.graph.edges

\* C2: with p = 1.0 and periodic=None the returned graph has the nodes 0..N-1
\* and exactly the edges (i, j) with R[i,0] < R[j,0] and a strictly negative
\* separation; for R = [[0,0],[1,0],[2,0]] these are 0->1, 0->2 and 1->2.
C2_ExactEdgeSet ==
    (GraphReturned /\ call.p = PDenom) =>
        /\ result.graph.nodes = 0..(call.N - 1)
        /\ result.graph.edges = TimelikePairs(R)
        /\ (R = << <<0, 0>>, <<1, 0>>, <<2, 0>> >>) =>
              result.graph.edges = { <<0, 1>>, <<0, 2>>, <<1, 2>> }

\* the chain of the three points (0,0), (1,0), (2,0) was built
C2_Witness ==
    /\ GraphReturned
    /\ call.p = PDenom
    /\ R = << <<0, 0>>, <<1, 0>>, <<2, 0>> >>
    /\ result.graph.edges = { <<0, 1>>, <<0, 2>>, <<1, 2>> }

\* a pair at separation exactly 0, earlier first, was left without an edge
C2_LightlikeReached ==
    /\ GraphReturned
    /\ call.p = PDenom
    /\ \E a \in 0..(call.N - 1), b \in 0..(call.N - 1) :
          /\ R[a + 1][1] < R[b + 1][1]
          /\ Separation(R[a + 1], R[b + 1]) = 0
          /\ <<a, b>> \notin result.graph.edges

\* C9: with periodic=None and any p and any draws, the edges are among the
\* edges of the p = 1 graph of the same R; p = 0 gives no edge; p = 1 gives
\* the same edges whatever the draws.
C9_EdgesWithinFullGraph ==
    GraphReturned =>
        /\ result.graph.edges \subseteq TimelikePairs(R)
        /\ (call.p = 0) => (result.graph.edges = {})
        /\ (call.p = PDenom) => (result.graph.edges = TimelikePairs(R))

\* with 0 < p < 1 some edges were drawn and some were not
C9_Witness ==
    /\ GraphReturned
    /\ 0 < call.p
    /\ call.p < PDenom
    /\ result.graph.edges # {}
    /\ result.graph.edges # TimelikePairs(R)

\* a metric was called on two points of different lengths
MismatchedCall ==
    /\ pc = "done"
    /\ call.fn \in Metrics
    /\ Len(call.x) # Len(call.y)

\* C4: euclidean, spherical, minkowski, minkowski_periodic and de_sitter, called
\* on points of different lengths, fail with the length assertion and return
\* no value.
C4_LengthMismatchRaises ==
    MismatchedCall =>
        /\ result.kind = "AssertionError"
        /\ result.msg \in LengthMessages

\* de_sitter, which holds no assertion of its own, failed on a time-only point
\* against a longer one
C4_Witness ==
    /\ MismatchedCall
    /\ call.fn = "de_sitter"
    /\ Len(call.x) = 1
    /\ result.kind = "AssertionError"

\* the squared difference of one space coordinate under period L_d
\* (nearest image), or the plain one where there is no period
NearestImageSq(delta, L_d) ==
    IF L_d = None THEN delta * delta
    ELSE Min3(delta * delta, (delta + L_d) * (delta + L_d), (delta - L_d) * (delta - L_d))

\* entry d of the periodic spec, unbounded where the spec is too short
PeriodOf(L, d) == IF d <= Len(L) THEN L[d] ELSE None

\* the separation of x and y under the periodic spec L
PeriodicSeparation(x, y, L) ==
    SumSeq([d \in 1..(Len(x) - 1) |->
              NearestImageSq(x[d + 1] - y[d + 1], PeriodOf(L, d))])
      - (x[1] - y[1]) * (x[1] - y[1])

\* minkowski_periodic was called on two points of one length
PeriodicCall ==
    /\ pc = "done"
    /\ call.fn = "minkowski_periodic"
    /\ Len(call.x) = Len(call.y)

\* C3: minkowski_periodic(x, y, L) returns the nearest-image sum over the space
\* dimensions less the squared time difference, and minkowski(x, y) when no
\* entry of L is a period.
C3_PeriodicSeparationReturned ==
    PeriodicCall =>
        /\ result = Value(PeriodicSeparation(call.x, call.y, call.L))
        /\ (\A d \in 1..Len(call.L) : call.L[d] = None) =>
              result = minkowski(call.x, call.y)

\* C10: a call of minkowski_periodic leaves the caller's periodic spec and the
\* default spec as they were, also when it fails.
C10_PeriodicSpecUntouched ==
    /\ Ldefault = <<>>
    /\ (pc = "done" /\ call.fn = "minkowski_periodic" /\ call.hasL) =>
          Lcaller = ListObj(call.L)

\* C10, through causal_set_graph: the list passed as periodic stays as it was
C10_GraphPeriodicUntouched ==
    (call.fn = "causal_set_graph") => Lcaller = call.periodic

NotImplementedMessages ==
    {"ERROR - minkowski_interval_map not implemented yet", "Not implemented yet"}

\* one of the two interval samplers was called with method='map'
MapCall ==
    /\ call.fn \in {"minkowski_interval", "de_sitter_interval"}
    /\ call.method = "map"

\* C5: minkowski_interval and de_sitter_interval with method='map' raise the
\* not-implemented assertion for every N, D, KT2 and fix_ends, and sample
\* nothing.
C5_MapNotImplemented ==
    MapCall =>
        /\ pc = "done"
        /\ result.kind = "AssertionError"
        /\ result.msg \in NotImplementedMessages
        /\ R = <<>>
        /\ Z = <<>>
        /\ accepted = {}

\* de_sitter_interval with method='map' and a KT2 above the range
C5_Witness ==
    /\ MapCall
    /\ call.fn = "de_sitter_interval"
    /\ call.KT2 >= 4
    /\ result.kind = "AssertionError"

\* de_sitter_interval was called with the scatter method and KT2 outside (0, 4)
BadKT2Call ==
    /\ call.fn = "de_sitter_interval"
    /\ call.method = "scatter"
    /\ (call.KT2 <= 0 \/ call.KT2 >= 4)

\* C6: de_sitter_interval with the default method raises the KT2 assertion
\* whenever KT2 <= 0 or KT2 >= 4, before any point is sampled.
C6_KT2OutOfRangeRaises ==
    BadKT2Call =>
        /\ pc = "done"
        /\ result = Raise("AssertionError", "KT^2 must be between 0 and 4 for this method")
        /\ Z = <<>>
        /\ accepted = {}

\* the call with KT2 = 4 has failed
C6_Witness ==
    /\ BadKT2Call
    /\ call.KT2 = 4
    /\ pc = "done"
    /\ result.kind = "AssertionError"

\* minkowski_interval(N, D, fix_ends, method='scatter') has ended
ScatterEnded ==
    /\ pc = "done"
    /\ call.fn = "minkowski_interval"
    /\ call.method = "scatter"

\* C7: for every positive N the scatter call returns an N x D matrix whose rows
\* r all have minkowski(a, r) <= 0 and minkowski(r, b) <= 0, with row 0 = a and
\* row 1 = b if fix_ends; it does not fail.
C7_ScatterReturnsInterval ==
    ScatterEnded =>
        /\ result.kind = "matrix"
        /\ Len(result.rows) = call.N
        /\ \A k \in 1..call.N :
              /\ Len(result.rows[k]) = call.D
              /\ Separation(IntervalStart(call.D), result.rows[k]) <= 0
              /\ Separation(result.rows[k], IntervalEnd(call.D)) <= 0
        /\ call.fix_ends =>
              /\ result.rows[1] = IntervalStart(call.D)
              /\ result.rows[2] = IntervalEnd(call.D)

\* what a scatter call returns is a matrix de_sitter_interval_scatter's batch
\* may be
ScatterResultsCoverReturns ==
    (ScatterEnded /\ result.kind = "matrix") =>
        result.rows \in ScatterResults(call.N, call.D, call.fix_ends)

\* de_sitter_interval(..., method='scatter') has returned a matrix
DeSitterReturned ==
    /\ pc = "done"
    /\ call.fn = "de_sitter_interval"
    /\ call.method = "scatter"
    /\ result.kind = "matrix"

\* the rows `fix_ends` forces: the origin and the unit-time point
ForcedEnds(D) == { [d \in 1..D |-> 0], [d \in 1..D |-> IF d = 1 THEN Unit ELSE 0] }

\* C8: when de_sitter_interval's scatter method returns, the result has exactly
\* N rows, each an accepted candidate of a batch or a forced endpoint; with
\* fix_ends, row 0 is the origin and row 1 is (1, 0, ..., 0).
C8_DeSitterReturnsNRows ==
    DeSitterReturned =>
        /\ 0 < call.KT2 /\ call.KT2 < 4
        /\ Len(result.rows) = call.N
        /\ \A k \in 1..Len(result.rows) :
              \/ result.rows[k] \in accepted
              \/ call.fix_ends /\ k <= 2 /\ result.rows[k] \in ForcedEnds(call.D)
        /\ call.fix_ends =>
              /\ result.rows[1] = [d \in 1..call.D |-> 0]
              /\ result.rows[2] = [d \in 1..call.D |-> IF d = 1 THEN Unit ELSE 0]

\* more than N rows had been accepted and the forced ends replaced two of them
C8_Witness ==
    /\ DeSitterReturned
    /\ call.fix_ends
    /\ call.N = 3
    /\ Len(Z) > call.N
    /\ Len(result.rows) = 3
    /\ result.rows[1] \notin accepted

====
